---- MODULE Spec2Model ----
(***************************************************************************)
(* rotate-backups-s3: rotation of timestamped backups in S3 buckets.       *)
(*                                                                         *)
(* The module models cli.main (option parsing, the loop over the buckets)  *)
(* and S3RotateBackups.rotate_backups / collect_backups.  The rotation     *)
(* engine inherited from the rotate_backups package (group_backups,        *)
(* apply_rotation_scheme, find_preservation_criteria), its                 *)
(* TIMESTAMP_PATTERN, coerce_retention_period and load_config_file are not *)
(* part of the sources; they are modelled from the specification (§4.1,    *)
(* §4.3, §6, §7) behind the call interface the sources use.                *)
(***************************************************************************)
EXTENDS Integers, Sequences, FiniteSets, TLC

\* ------------------------------------------------------------------ bounds
\* Most objects a bucket holds in an initial state.
MaxObjects == 3
\* Largest integer retention count on the command line.
MaxCount == 2
\* Most names of one batch the storage service fails to delete.
MaxFailed == 1

\* ------------------------------------------------------------ text helpers
\* A name or a pattern is a sequence of one-character strings.
Digits == {"0", "1", "2", "3", "4", "5", "6", "7", "8", "9"}

DigitVal(c) ==
    CASE c = "0" -> 0 [] c = "1" -> 1 [] c = "2" -> 2 [] c = "3" -> 3
      [] c = "4" -> 4 [] c = "5" -> 5 [] c = "6" -> 6 [] c = "7" -> 7
      [] c = "8" -> 8 [] c = "9" -> 9

\* The code point of a character of the names' alphabet (ASCII).
CharCode(c) ==
    CASE c \in Digits -> 48 + DigitVal(c)
      [] c = "-" -> 45 [] c = "." -> 46
      [] c = "a" -> 97 [] c = "b" -> 98 [] c = "s" -> 115
      [] c = "l" -> 108 [] c = "w" -> 119 [] c = "x" -> 120 [] c = "y" -> 121
      [] c = "*" -> 42 [] c = "?" -> 63 [] c = "!" -> 33
      [] c = "[" -> 91 [] c = "]" -> 93

\* Lexicographic order on sequences of integers: -1, 0 or 1.
RECURSIVE CmpInts(_, _)
CmpInts(s, t) ==
    IF s = <<>> /\ t = <<>> THEN 0
    ELSE IF s = <<>> THEN -1
    ELSE IF t = <<>> THEN 1
    ELSE IF Head(s) < Head(t) THEN -1
    ELSE IF Head(s) > Head(t) THEN 1
    ELSE CmpInts(Tail(s), Tail(t))

Codes(s) == [i \in 1..Len(s) |-> CharCode(s[i])]

\* The first position at or after j where pat holds "]", or Len(pat) + 1.
RECURSIVE NextBracket(_, _)
NextBracket(pat, j) ==
    IF j > Len(pat) \/ pat[j] = "]" THEN j ELSE NextBracket(pat, j + 1)

\* For a pattern that starts with "[": the position of the "]" that closes
\* the set, or 0 when nothing closes it.  A "!" right after the "[" and a
\* "]" right after that belong to the set.
ClosingBracket(pat) ==
    LET j1 == IF 2 <= Len(pat) /\ pat[2] = "!" THEN 3 ELSE 2
        j2 == IF j1 <= Len(pat) /\ pat[j1] = "]" THEN j1 + 1 ELSE j1
        j3 == NextBracket(pat, j2)
    IN  IF j3 > Len(pat) THEN 0 ELSE j3

\* c is one of the characters and ranges lo-hi that the set lists.
RECURSIVE InSet(_, _)
InSet(c, stuff) ==
    IF stuff = <<>> THEN FALSE
    ELSE IF Len(stuff) >= 3 /\ stuff[2] = "-"
         THEN \/ /\ CharCode(stuff[1]) <= CharCode(c)
                 /\ CharCode(c) <= CharCode(stuff[3])
              \/ InSet(c, SubSeq(stuff, 4, Len(stuff)))
    ELSE c = stuff[1] \/ InSet(c, Tail(stuff))

\* c matches the set between pat[1] = "[" and the closing "]" at position j.
MatchesSet(c, pat, j) ==
    IF pat[2] = "!"
    THEN ~InSet(c, SubSeq(pat, 3, j - 1))
    ELSE InSet(c, SubSeq(pat, 2, j - 1))

\* fnmatch.fnmatch(name, pat) on POSIX: case-sensitive, '*' matches any run
\* of characters, '?' any one character, '[seq]' any character of seq,
\* '[!seq]' any character not of seq, anything else itself.
RECURSIVE fnmatch(_, _)
fnmatch(name, pat) ==
    IF pat = <<>> THEN name = <<>>
    ELSE IF Head(pat) = "*"
         THEN \E k \in 0..Len(name) :
                  fnmatch(SubSeq(name, k + 1, Len(name)), Tail(pat))
    ELSE IF name = <<>> THEN FALSE
    ELSE IF Head(pat) = "?" THEN fnmatch(Tail(name), Tail(pat))
    ELSE IF Head(pat) = "[" /\ ClosingBracket(pat) # 0
         THEN /\ MatchesSet(Head(name), pat, ClosingBracket(pat))
              /\ fnmatch(Tail(name),
                         SubSeq(pat, ClosingBracket(pat) + 1, Len(pat)))
    ELSE Head(name) = Head(pat) /\ fnmatch(Tail(name), Tail(pat))

\* any(fnmatch.fnmatch(entry, p) for p in patterns)
MatchesAny(entry, patterns) ==
    \E i \in 1..Len(patterns) : fnmatch(entry, patterns[i])

\* ---------------------------------------------------------------- calendar
IsLeap(y) == (y % 4 = 0 /\ y % 100 # 0) \/ y % 400 = 0

DaysInMonth(y, m) ==
    IF m = 2 THEN (IF IsLeap(y) THEN 29 ELSE 28)
    ELSE IF m \in {4, 6, 9, 11} THEN 30 ELSE 31

RECURSIVE DaysBeforeMonth(_, _)
DaysBeforeMonth(y, m) ==
    IF m = 1 THEN 0 ELSE DaysBeforeMonth(y, m - 1) + DaysInMonth(y, m - 1)

DayOfYear(y, m, d) == DaysBeforeMonth(y, m) + d

\* Proleptic Gregorian ordinal: day 1 is 0001-01-01, a Monday.
Ordinal(y, m, d) ==
    (y - 1) * 365 + (y - 1) \div 4 - (y - 1) \div 100 + (y - 1) \div 400
        + DayOfYear(y, m, d)

\* 1 = Monday .. 7 = Sunday.
IsoWeekday(y, m, d) == ((Ordinal(y, m, d) - 1) % 7) + 1

WeeksInYear(y) ==
    IF IsoWeekday(y, 1, 1) = 4 \/ (IsLeap(y) /\ IsoWeekday(y, 1, 1) = 3)
    THEN 53 ELSE 52

\* <<ISO year, ISO week>> of a calendar date.
IsoYearWeek(y, m, d) ==
    LET w == (DayOfYear(y, m, d) - IsoWeekday(y, m, d) + 10) \div 7
    IN  IF w < 1 THEN <<y - 1, WeeksInYear(y - 1)>>
        ELSE IF w > WeeksInYear(y) THEN <<y + 1, 1>>
        ELSE <<y, w>>

ValidDate(y, m, d) ==
    /\ y \in 1..9999
    /\ m \in 1..12
    /\ d \in 1..DaysInMonth(y, m)

\* int(group, 10) for a sequence of decimal digits.
RECURSIVE ParseInt(_)
ParseInt(ds) ==
    IF ds = <<>> THEN 0
    ELSE 10 * ParseInt(SubSeq(ds, 1, Len(ds) - 1)) + DigitVal(ds[Len(ds)])

\* ------------------------------------------------------ timestamp pattern
\* TIMESTAMP_PATTERN.search(entry): year(4) month(2) day(2) hour(2)
\* minute(2) and an optional second(2), each group followed by at most one
\* non-digit.  The result is the six groups of the first match (an unmatched
\* group is NoGroup), or NoMatch.
NoMatch == <<>>
NoGroup == <<>>

DigitsAt(s, p, n) ==
    /\ p >= 1
    /\ p + n - 1 <= Len(s)
    /\ \A j \in p..(p + n - 1) : s[j] \in Digits

\* \D? : skip one non-digit when there is one.
SkipSep(s, p) == IF p <= Len(s) /\ s[p] \notin Digits THEN p + 1 ELSE p

MatchAt(s, i) ==
    LET pM  == SkipSep(s, i + 4)
        pD  == SkipSep(s, pM + 2)
        pH  == SkipSep(s, pD + 2)
        pMi == SkipSep(s, pH + 2)
        pS  == SkipSep(s, pMi + 2)
    IN  IF /\ DigitsAt(s, i, 4)
           /\ DigitsAt(s, pM, 2)
           /\ DigitsAt(s, pD, 2)
           /\ DigitsAt(s, pH, 2)
           /\ DigitsAt(s, pMi, 2)
        THEN << SubSeq(s, i, i + 3), SubSeq(s, pM, pM + 1),
                SubSeq(s, pD, pD + 1), SubSeq(s, pH, pH + 1),
                SubSeq(s, pMi, pMi + 1),
                IF DigitsAt(s, pS, 2) THEN SubSeq(s, pS, pS + 1) ELSE NoGroup >>
        ELSE NoMatch

TimestampSearch(s) ==
    LET starts == {i \in 1..Len(s) : MatchAt(s, i) # NoMatch}
    IN  IF starts = {} THEN NoMatch
        ELSE MatchAt(s, CHOOSE i \in starts : \A j \in starts : i <= j)

\* match.groups('0'): an unmatched group reads '0'.
GroupsDefault(match) ==
    [g \in 1..Len(match) |-> IF match[g] = NoGroup THEN <<"0">> ELSE match[g]]

\* (int(group, 10) for group in match.groups('0'))
TimestampFields(match) ==
    [g \in 1..Len(match) |-> ParseInt(GroupsDefault(match)[g])]

\* datetime.datetime(year, month, day, hour, minute, second) raises
\* ValueError when a field is out of range.
ValidDatetime(t) ==
    /\ ValidDate(t[1], t[2], t[3])
    /\ t[4] \in 0..23
    /\ t[5] \in 0..59
    /\ t[6] \in 0..59

\* ------------------------------------------------------------------ Backup
S3Backup(pathname, timestamp) ==
    [pathname |-> pathname, timestamp |-> timestamp]

\* Backups order by timestamp, ties by pathname.
BackupLess(a, b) ==
    \/ CmpInts(a.timestamp, b.timestamp) = -1
    \/ /\ CmpInts(a.timestamp, b.timestamp) = 0
       /\ CmpInts(Codes(a.pathname), Codes(b.pathname)) = -1

\* sorted(backups)
RECURSIVE SortBackups(_)
SortBackups(S) ==
    IF S = {} THEN <<>>
    ELSE LET least == CHOOSE x \in S : \A y \in S \ {x} : BackupLess(x, y)
         IN  <<least>> \o SortBackups(S \ {least})

Range(seq) == {seq[i] : i \in 1..Len(seq)}

\* --------------------------------------------------------- collect_backups
\* A variant of EntryCollected that consults the include list first, so a
\* name matching an include pattern is appended whatever the exclude list.
EntryCollectedIncludeFirst(entry, include_list, exclude_list) ==
    LET match == TimestampSearch(entry)
    IN  IF match # NoMatch
        THEN IF include_list # <<>> /\ MatchesAny(entry, include_list)
             THEN TRUE
             ELSE IF exclude_list # <<>> /\ MatchesAny(entry, exclude_list)
             THEN FALSE
             ELSE include_list = <<>>
        ELSE FALSE

\* A variant of EntryCollected that never consults the exclude list.
EntryCollectedIgnoresExclude(entry, include_list, exclude_list) ==
    LET match == TimestampSearch(entry)
    IN  IF match # NoMatch
        THEN IF include_list # <<>> /\ ~MatchesAny(entry, include_list)
             THEN FALSE
             ELSE TRUE
        ELSE FALSE

\* The if / elif / else of the loop body: is the entry appended?
EntryCollected(entry, include_list, exclude_list) ==
    LET match == TimestampSearch(entry)
    IN  IF match # NoMatch
        THEN IF exclude_list # <<>> /\ MatchesAny(entry, exclude_list)
             THEN FALSE
             ELSE IF include_list # <<>> /\ ~MatchesAny(entry, include_list)
             THEN FALSE
             ELSE TRUE
        ELSE FALSE

\* An appended entry whose fields datetime.datetime() rejects.
CollectRaises(names, include_list, exclude_list) ==
    \E e \in names :
        /\ EntryCollected(e, include_list, exclude_list)
        /\ ~ValidDatetime(TimestampFields(TimestampSearch(e)))

\* A variant of collect_backups that returns the backups in the order of
\* their names, as the loop appended them, without sorting them by date.
RECURSIVE SortByName(_)
SortByName(S) ==
    IF S = {} THEN <<>>
    ELSE LET least == CHOOSE x \in S : \A y \in S \ {x} :
                          CmpInts(Codes(x.pathname), Codes(y.pathname)) = -1
         IN  <<least>> \o SortByName(S \ {least})

collect_backups_unsorted(names, include_list, exclude_list) ==
    SortByName({S3Backup(e, TimestampFields(TimestampSearch(e))) :
                    e \in {n \in names :
                             EntryCollected(n, include_list, exclude_list)}})

\* The sorted list collect_backups returns for the names bucket.list() gave.
collect_backups(names, include_list, exclude_list) ==
    SortBackups({S3Backup(e, TimestampFields(TimestampSearch(e))) :
                    e \in {n \in names :
                             EntryCollected(n, include_list, exclude_list)}})

\* --------------------------------------------------------- rotation engine
ORDERED_FREQUENCIES == <<"hourly", "daily", "weekly", "monthly", "yearly">>

SUPPORTED_FREQUENCIES == Range(ORDERED_FREQUENCIES)

\* A retention period after coercion.
Always == [kind |-> "always", n |-> 0]
Count(n) == [kind |-> "count", n |-> n]

\* The calendar period of a timestamp at a frequency's granularity.
PeriodKey(frequency, t) ==
    CASE frequency = "hourly"  -> <<t[1], t[2], t[3], t[4]>>
      [] frequency = "daily"   -> <<t[1], t[2], t[3]>>
      [] frequency = "weekly"  -> IsoYearWeek(t[1], t[2], t[3])
      [] frequency = "monthly" -> <<t[1], t[2]>>
      [] frequency = "yearly"  -> <<t[1]>>

\* Step 1: frequency -> period key -> the period's backups, oldest first.
group_backups(sorted_backups) ==
    [f \in SUPPORTED_FREQUENCIES |->
        [k \in {PeriodKey(f, b.timestamp) : b \in Range(sorted_backups)} |->
            LET InPeriod(b) == PeriodKey(f, b.timestamp) = k
            IN  SelectSeq(sorted_backups, InPeriod)]]

\* The n most recent of a set of period keys.
MostRecentKeys(keys, n) ==
    {k \in keys : Cardinality({j \in keys : CmpInts(j, k) = 1}) < n}

\* The entry of the table that holds the most recent backup overall, which
\* no scheme makes ineligible.
MOST_RECENT == "most_recent"

\* The backups of the table taken at the reference instant, oldest first.
TakenAt(backups_by_frequency, reference) ==
    LET periods == backups_by_frequency["hourly"]
        k       == PeriodKey("hourly", reference)
        At(b)   == b.timestamp = reference
    IN  IF k \in DOMAIN periods THEN SelectSeq(periods[k], At) ELSE <<>>

\* Step 2: a frequency absent from the scheme keeps no period, 'always'
\* keeps every period, a count N keeps the N most recent periods counting
\* back from the period of the reference instant; the most recent backup
\* overall, the last one taken at the reference instant, stays eligible
\* whatever the scheme is.
apply_rotation_scheme(scheme, backups_by_frequency, reference) ==
    [f \in SUPPORTED_FREQUENCIES \cup {MOST_RECENT} |->
        IF f = MOST_RECENT
        THEN LET newest == TakenAt(backups_by_frequency, reference)
             IN  [k \in IF newest = <<>> THEN {} ELSE {reference} |->
                     <<newest[Len(newest)]>>]
        ELSE
        LET periods == backups_by_frequency[f]
            upto    == {k \in DOMAIN periods :
                          CmpInts(k, PeriodKey(f, reference)) <= 0}
            kept    == IF f \notin DOMAIN scheme THEN {}
                       ELSE IF scheme[f] = Always THEN DOMAIN periods
                       ELSE MostRecentKeys(upto, scheme[f].n)
        IN  [k \in kept |-> periods[k]]]

\* The frequencies, in ORDERED_FREQUENCIES order, that keep the backup.
Reasons(backups_by_frequency, b) ==
    LET Keeps(f) == \E k \in DOMAIN backups_by_frequency[f] :
                        LET period == backups_by_frequency[f][k]
                        IN  period[Len(period)] = b
    IN  SelectSeq(ORDERED_FREQUENCIES, Keeps)

\* The backups the table holds under an entry.
HeldUnder(backups_by_frequency, f) ==
    UNION {Range(backups_by_frequency[f][k]) :
              k \in DOMAIN backups_by_frequency[f]}

\* Step 3: of every retained period the most recent backup is preserved,
\* and so is the most recent backup overall; the result maps each preserved
\* backup to the frequencies that keep it.
find_preservation_criteria(backups_by_frequency) ==
    LET all      == UNION {HeldUnder(backups_by_frequency, f) :
                              f \in DOMAIN backups_by_frequency}
        implicit == IF MOST_RECENT \in DOMAIN backups_by_frequency
                    THEN HeldUnder(backups_by_frequency, MOST_RECENT)
                    ELSE {}
    IN  [b \in {x \in all : \/ Reasons(backups_by_frequency, x) # <<>>
                             \/ x \in implicit} |->
            Reasons(backups_by_frequency, b)]

\* ------------------------------------------------------------------ inputs
\* Object names.
\* "201512270900": Sun 2015-12-27 09:00, ISO week 2015-52
Dec27 == <<"2", "0", "1", "5", "1", "2", "2", "7", "0", "9", "0", "0">>
\* "201512311200": Thu 2015-12-31 12:00, ISO week 2015-53
Dec31 == <<"2", "0", "1", "5", "1", "2", "3", "1", "1", "2", "0", "0">>
\* "201601010000.b": Fri 2016-01-01 00:00, ISO week 2015-53
Jan01 == <<"2", "0", "1", "6", "0", "1", "0", "1", "0", "0", "0", "0", ".", "b">>
\* "2016-01-01-1330": the same day, 13:30
Jan01pm == <<"2", "0", "1", "6", "-", "0", "1", "-", "0", "1", "-", "1", "3", "3", "0">>
\* "s201601040800.b": Mon 2016-01-04 08:00, ISO week 2016-01
Jan04s == <<"s", "2", "0", "1", "6", "0", "1", "0", "4", "0", "8", "0", "0", ".", "b">>
\* "a201601040800": the same instant under another name
Jan04a == <<"a", "2", "0", "1", "6", "0", "1", "0", "4", "0", "8", "0", "0">>
\* "s2016.b": no timestamp
NoStamp == <<"s", "2", "0", "1", "6", ".", "b">>
\* "201613010000": month 13: datetime.datetime() raises
BadMonth == <<"2", "0", "1", "6", "1", "3", "0", "1", "0", "0", "0", "0">>
\* Shell patterns.
\* "*.b"
PatB == <<"*", ".", "b">>
\* "*s*"
PatS == <<"*", "s", "*">>
\* "?2016*"
PatQ == <<"?", "2", "0", "1", "6", "*">>
\* "[as]*"
PatSet == <<"[", "a", "s", "]", "*">>
\* Retention texts.
TextAlways == <<"a", "l", "w", "a", "y", "s">>
TextJunk == <<"x">>
DigitChar(n) == CHOOSE c \in Digits : DigitVal(c) = n
TextCount(n) == <<DigitChar(n)>>

\* The option that sets each frequency (cli.py lines 136-145).
FrequencyOption(f) ==
    CASE f = "hourly" -> "-H" [] f = "daily" -> "-d" [] f = "weekly" -> "-w"
      [] f = "monthly" -> "-m" [] f = "yearly" -> "-y"

Opt(o, v) == [opt |-> o, val |-> v]

\* One option per element, in the order of the sequence.
SchemeOptions(fs, text) ==
    [i \in 1..Len(fs) |-> Opt(FrequencyOption(fs[i]), text[fs[i]])]
PatternOptions(o, pats) == [i \in 1..Len(pats) |-> Opt(o, pats[i])]
DryRunOptions(dry) == IF dry THEN <<Opt("-n", <<>>)>> ELSE <<>>

\* The frequencies a command line of the model sets.
FrequencyLists ==
    { <<>>, <<"hourly">>, <<"daily">>, <<"weekly">>, <<"monthly">>,
      <<"yearly">>, <<"daily", "weekly">>, <<"hourly", "yearly">> }

RetentionTexts == {TextCount(n) : n \in 0..MaxCount} \cup {TextAlways}

\* The command lines that set a rotation scheme.
SchemeCommandLines ==
    UNION { {SchemeOptions(fs, text) : text \in [Range(fs) -> RetentionTexts]} :
              fs \in FrequencyLists }

Timestamped == {Dec27, Dec31, Jan01, Jan01pm, Jan04s, Jan04a}

Contents(universe) == {c \in SUBSET universe : Cardinality(c) <= MaxObjects}

Buckets == {"b1", "b2"}

\* -------------------------------------------------------------------- state
VARIABLES
    options,              \* sys.argv[1:] as getopt splits it: the options
    arguments,            \* ... and the positional arguments (bucket names)
    config,               \* what the configuration file holds
    store,                \* S3: bucket name -> the names of its keys
    main_pc,              \* where main() is
    exit_code,            \* the process's exit status, -1 while it runs
    rotation_scheme, include_list, exclude_list, dry_run,   \* main's locals
    idx,                  \* the position in arguments of main's for loop
    run_pc,               \* where rotate_backups is
    sorted_backups, backups_to_preserve, deleted_files,     \* its locals
    i,                    \* the position in sorted_backups of its for loop
    calls,                \* the requests made to S3, in order
    log,                  \* the records logged at info level and above
    runs,                 \* the calls of rotate_backups that returned
    backup_datetime       \* whether a Backup of the installed rotate_backups
                          \* has the attribute datetime: "unread" until
                          \* line 137 reads it, then "present" or "absent"

vars == << options, arguments, config, store, main_pc, exit_code,
           rotation_scheme, include_list, exclude_list, dry_run, idx, run_pc,
           sorted_backups, backups_to_preserve, deleted_files, i, calls, log,
           runs, backup_datetime >>

inputs == <<options, config>>
parsed == <<rotation_scheme, include_list, exclude_list, dry_run>>
locals == <<sorted_backups, backups_to_preserve, deleted_files, i>>

NoPreservation == [b \in {} |-> <<>>]
EmptyScheme == [f \in {} |-> Always]

\* --------------------------------------------------------------- cli.main
\* What getopt.getopt accepts: the short and the long options it is given.
GetoptKnown ==
    { "-U", "-P", "-H", "-d", "-w", "-m", "-y", "-I", "-x", "-c", "-n", "-v",
      "-h", "--aws_access_key_id", "--aws_secret_access_key", "--hourly",
      "--daily", "--weekly", "--monthly", "--yearly", "--include",
      "--exclude", "--config", "--dry-run", "--verbose", "--help" }

\* coerce_retention_period accepts 'always' and a positive integer.
RetentionAccepted(value) ==
    \/ value = TextAlways
    \/ /\ value # <<>>
       /\ \A j \in 1..Len(value) : value[j] \in Digits
       /\ ParseInt(value) > 0

coerce_retention_period(value) ==
    IF value = TextAlways THEN Always ELSE Count(ParseInt(value))

SetRetention(st, frequency, value) ==
    IF RetentionAccepted(value)
    THEN [st EXCEPT !.rotation_scheme =
            [f \in DOMAIN st.rotation_scheme \cup {frequency} |->
                IF f = frequency THEN coerce_retention_period(value)
                ELSE st.rotation_scheme[f]]]
    ELSE [st EXCEPT !.status = "error"]

LogRecord(event, bucket, pathname, reasons) ==
    [event |-> event, bucket |-> bucket, pathname |-> pathname,
     reasons |-> reasons]

\* The defaults of lines 121-127; log holds what the option loop logs.
Defaults ==
    [ rotation_scheme |-> EmptyScheme, include_list |-> <<>>,
      exclude_list |-> <<>>, dry_run |-> FALSE, status |-> "ok",
      log |-> <<>> ]

\* One turn of the loop over the options (lines 135-165).
HandleOption(st, o) ==
    IF o.opt \in {"-H", "--hourly"} THEN SetRetention(st, "hourly", o.val)
    ELSE IF o.opt \in {"-d", "--daily"} THEN SetRetention(st, "daily", o.val)
    ELSE IF o.opt \in {"-w", "--weekly"} THEN SetRetention(st, "weekly", o.val)
    ELSE IF o.opt \in {"-m", "--monthly"} THEN SetRetention(st, "monthly", o.val)
    ELSE IF o.opt \in {"-y", "--yearly"} THEN SetRetention(st, "yearly", o.val)
    ELSE IF o.opt \in {"-I", "--include"}
         THEN [st EXCEPT !.include_list = Append(@, o.val)]
    ELSE IF o.opt \in {"-x", "--exclude"}
         THEN [st EXCEPT !.exclude_list = Append(@, o.val)]
    ELSE IF o.opt \in {"-c", "--config"} THEN st
    ELSE IF o.opt \in {"-U", "--aws-access-key-id"} THEN st
    ELSE IF o.opt \in {"-P", "--aws-secret-access-key"} THEN st
    ELSE IF o.opt \in {"-n", "--dry-run"}
         THEN [st EXCEPT !.dry_run = TRUE,
                         !.log = Append(@, LogRecord("dry_run", "", <<>>, <<>>))]
    ELSE IF o.opt \in {"-v", "--verbose"} THEN st
    ELSE IF o.opt \in {"-h", "--help"} THEN [st EXCEPT !.status = "help"]
    ELSE [st EXCEPT !.status = "error"]      \* assert False

RECURSIVE HandleOptions(_, _)
HandleOptions(st, opts) ==
    IF opts = <<>> \/ st.status # "ok" THEN st
    ELSE HandleOptions(HandleOption(st, Head(opts)), Tail(opts))

\* getopt.getopt raises on an option it does not know, then the loop runs.
ParseOptions(opts) ==
    IF \E j \in 1..Len(opts) : opts[j].opt \notin GetoptKnown
    THEN [Defaults EXCEPT !.status = "error"]
    ELSE HandleOptions(Defaults, opts)

\* load_config_file: the buckets the configuration file names; it raises
\* on a file it cannot parse.
LoadConfigRaises(cfg) == cfg = "invalid"
LoadConfigBuckets(cfg) == IF cfg = "lists_b1" THEN <<"b1">> ELSE <<>>

\* A variant of ParseArguments whose exception handler logs the error and
\* falls through to the loop over the buckets instead of exiting.
ParseArgumentsNoExit ==
    /\ main_pc = "parse"
    /\ LET st   == ParseOptions(options)
           args == IF st.status = "ok" /\ arguments = <<>>
                      /\ ~LoadConfigRaises(config)
                   THEN LoadConfigBuckets(config) ELSE arguments
           failed == \/ st.status = "error"
                     \/ /\ st.status = "ok"
                        /\ arguments = <<>>
                        /\ LoadConfigRaises(config)
       IN  /\ rotation_scheme' = st.rotation_scheme
           /\ include_list' = st.include_list
           /\ exclude_list' = st.exclude_list
           /\ dry_run' = st.dry_run
           /\ arguments' = args
           /\ IF failed
              THEN /\ main_pc' = "loop"
                   /\ exit_code' = exit_code
                   /\ log' = (log \o st.log)
                                 \o <<LogRecord("error", "", <<>>, <<>>)>>
              ELSE IF st.status = "help" \/ args = <<>>
              THEN /\ main_pc' = "returned"
                   /\ exit_code' = 0
                   /\ log' = log \o st.log
              ELSE /\ main_pc' = "loop"
                   /\ exit_code' = exit_code
                   /\ log' = log \o st.log
    /\ UNCHANGED <<inputs, backup_datetime, store, idx, run_pc, locals, calls, runs>>

\* Lines 129-179: parse the command line; exit 1 on any exception, return
\* after the usage message, or go on to the loop over the buckets.
ParseArguments ==
    /\ main_pc = "parse"
    /\ LET st   == ParseOptions(options)
           args == IF st.status = "ok" /\ arguments = <<>>
                      /\ ~LoadConfigRaises(config)
                   THEN LoadConfigBuckets(config) ELSE arguments
           failed == \/ st.status = "error"
                     \/ /\ st.status = "ok"
                        /\ arguments = <<>>
                        /\ LoadConfigRaises(config)
       IN  /\ rotation_scheme' = st.rotation_scheme
           /\ include_list' = st.include_list
           /\ exclude_list' = st.exclude_list
           /\ dry_run' = st.dry_run
           /\ arguments' = args
           /\ IF failed
              THEN /\ main_pc' = "exited"
                   /\ exit_code' = 1
                   /\ log' = (log \o st.log)
                                 \o <<LogRecord("error", "", <<>>, <<>>)>>
              ELSE IF st.status = "help" \/ args = <<>>
              THEN /\ main_pc' = "returned"
                   /\ exit_code' = 0
                   /\ log' = log \o st.log
              ELSE /\ main_pc' = "loop"
                   /\ exit_code' = exit_code
                   /\ log' = log \o st.log
    /\ UNCHANGED <<inputs, backup_datetime, store, idx, run_pc, locals, calls, runs>>

\* The for loop of line 181 is exhausted: main returns.
MainReturns ==
    /\ main_pc = "loop"
    /\ run_pc = "idle"
    /\ idx > Len(arguments)
    /\ main_pc' = "returned"
    /\ exit_code' = 0
    /\ UNCHANGED <<inputs, backup_datetime, arguments, store, parsed, idx, run_pc, locals,
                   calls, log, runs>>

\* ------------------------------------------------ S3RotateBackups.rotate_backups
bucketname == arguments[idx]

Call(op, bucket, keys, failed) ==
    [op |-> op, bucket |-> bucket, keys |-> keys, failed |-> failed]

RunRecord(bucket, dry, requested, called, failed) ==
    [bucket |-> bucket, dry_run |-> dry, requested |-> requested,
     called |-> called, failed |-> failed]

\* An exception nothing catches ends the process with a traceback.
Uncaught ==
    /\ main_pc' = "crashed"
    /\ exit_code' = 1
    /\ run_pc' = "raised"

\* Lines 182-189 and 127: construct the object, call rotate_backups, which
\* asks for the bucket; S3 answers a missing bucket with an error that
\* conn.get_bucket raises.
GetBucket ==
    /\ main_pc = "loop"
    /\ run_pc = "idle"
    /\ idx <= Len(arguments)
    /\ calls' = Append(calls, Call("get_bucket", bucketname, <<>>, {}))
    /\ IF bucketname \in DOMAIN store
       THEN /\ run_pc' = "collect"
            /\ UNCHANGED <<main_pc, exit_code>>
       ELSE Uncaught
    /\ UNCHANGED <<inputs, backup_datetime, arguments, store, parsed, idx, locals, log, runs>>

\* Lines 129-132: collect_backups lists the bucket; without backups
\* rotate_backups logs that and returns.
CollectBackups ==
    /\ run_pc = "collect"
    /\ calls' = calls \o << Call("get_bucket", bucketname, <<>>, {}),
                            Call("list", bucketname, <<>>, {}) >>
    /\ LET names  == store[bucketname]
           raises == CollectRaises(names, include_list, exclude_list)
           found  == collect_backups(
                         {n \in names :
                            EntryCollected(n, include_list, exclude_list)
                            => ValidDatetime(TimestampFields(TimestampSearch(n)))},
                         include_list, exclude_list)
       IN  IF raises
           THEN /\ Uncaught
                /\ log' = Append(log, LogRecord("scanning", bucketname, <<>>, <<>>))
                /\ UNCHANGED <<idx, sorted_backups, runs>>
           ELSE IF found = <<>>
           THEN /\ log' = log \o << LogRecord("scanning", bucketname, <<>>, <<>>),
                                    LogRecord("no_backups", bucketname, <<>>, <<>>) >>
                /\ runs' = Append(runs, RunRecord(bucketname, dry_run, <<>>, FALSE, {}))
                /\ sorted_backups' = found
                /\ run_pc' = "idle"
                /\ idx' = idx + 1
                /\ UNCHANGED <<main_pc, exit_code>>
           ELSE /\ log' = log \o << LogRecord("scanning", bucketname, <<>>, <<>>),
                                    LogRecord("found", bucketname, <<>>, <<>>) >>
                /\ sorted_backups' = found
                /\ run_pc' = "decide"
                /\ UNCHANGED <<main_pc, exit_code, idx, runs>>
    /\ UNCHANGED <<inputs, backup_datetime, arguments, store, parsed, backups_to_preserve,
                   deleted_files, i>>

\* What reading most_recent_backup.datetime (line 137) can give: the class
\* Backup comes from the rotate_backups package the build installs, and
\* lines 183-186 construct it with pathname= and timestamp= only. The
\* attribute is there (it holds the timestamp) or the read raises
\* AttributeError; one process sees one of the two, in every run.
DatetimeOutcomes ==
    IF backup_datetime = "unread" THEN {"present", "absent"}
    ELSE {backup_datetime}

\* A variant of Decide that takes the first backup of the sorted list as
\* the most recent one.
DecideFromOldest ==
    /\ run_pc = "decide"
    /\ \E outcome \in DatetimeOutcomes :
          /\ backup_datetime' = outcome
          /\ IF outcome = "absent"
             THEN /\ Uncaught
                  /\ UNCHANGED <<backups_to_preserve, deleted_files, i>>
             ELSE /\ LET most_recent_backup == sorted_backups[1]
                         backups_by_frequency == group_backups(sorted_backups)
                     IN  backups_to_preserve' =
                             find_preservation_criteria(
                                 apply_rotation_scheme(
                                     rotation_scheme, backups_by_frequency,
                                     most_recent_backup.timestamp))
                  /\ deleted_files' = <<>>
                  /\ i' = 1
                  /\ run_pc' = "partition"
                  /\ UNCHANGED <<main_pc, exit_code>>
    /\ UNCHANGED <<inputs, arguments, store, parsed, idx, sorted_backups,
                   calls, log, runs>>

\* Lines 133-141: the preservation decision for the collected backups, or
\* the AttributeError of line 137, which nothing catches.
Decide ==
    /\ run_pc = "decide"
    /\ \E outcome \in DatetimeOutcomes :
          /\ backup_datetime' = outcome
          /\ IF outcome = "absent"
             THEN /\ Uncaught
                  /\ UNCHANGED <<backups_to_preserve, deleted_files, i>>
             ELSE /\ LET most_recent_backup == sorted_backups[Len(sorted_backups)]
                         backups_by_frequency == group_backups(sorted_backups)
                     IN  backups_to_preserve' =
                             find_preservation_criteria(
                                 apply_rotation_scheme(
                                     rotation_scheme, backups_by_frequency,
                                     most_recent_backup.timestamp))
                  /\ deleted_files' = <<>>
                  /\ i' = 1
                  /\ run_pc' = "partition"
                  /\ UNCHANGED <<main_pc, exit_code>>
    /\ UNCHANGED <<inputs, arguments, store, parsed, idx, sorted_backups,
                   calls, log, runs>>

\* A variant of PartitionStep that marks for deletion without looking at
\* dry_run.
PartitionStepIgnoresDryRun ==
    /\ run_pc = "partition"
    /\ i <= Len(sorted_backups)
    /\ LET backup == sorted_backups[i]
       IN  IF backup \in DOMAIN backups_to_preserve
           THEN /\ log' = Append(log, LogRecord("preserving", bucketname,
                                 backup.pathname, backups_to_preserve[backup]))
                /\ deleted_files' = deleted_files
           ELSE /\ log' = Append(log, LogRecord("deleting", bucketname,
                                 backup.pathname, <<>>))
                /\ deleted_files' = Append(deleted_files, backup.pathname)
    /\ i' = i + 1
    /\ UNCHANGED <<inputs, backup_datetime, arguments, store, main_pc,
                   exit_code, parsed, idx, run_pc, sorted_backups,
                   backups_to_preserve, calls, runs>>

\* A variant of PartitionStep with the test inverted: it marks the backups
\* of the preservation set and keeps the others.
PartitionStepInverted ==
    /\ run_pc = "partition"
    /\ i <= Len(sorted_backups)
    /\ LET backup == sorted_backups[i]
       IN  IF backup \notin DOMAIN backups_to_preserve
           THEN /\ log' = Append(log, LogRecord("preserving", bucketname,
                                 backup.pathname, <<>>))
                /\ deleted_files' = deleted_files
           ELSE /\ log' = Append(log, LogRecord("deleting", bucketname,
                                 backup.pathname, <<>>))
                /\ deleted_files' = IF ~dry_run
                                    THEN Append(deleted_files, backup.pathname)
                                    ELSE deleted_files
    /\ i' = i + 1
    /\ UNCHANGED <<inputs, backup_datetime, arguments, store, main_pc,
                   exit_code, parsed, idx, run_pc, sorted_backups,
                   backups_to_preserve, calls, runs>>

\* A variant of PartitionStep without the else: every backup is marked for
\* deletion, the preserved ones too.
PartitionStepMarksAll ==
    /\ run_pc = "partition"
    /\ i <= Len(sorted_backups)
    /\ LET backup == sorted_backups[i]
       IN  /\ log' = IF backup \in DOMAIN backups_to_preserve
                     THEN Append(log, LogRecord("preserving", bucketname,
                                 backup.pathname, backups_to_preserve[backup]))
                     ELSE Append(log, LogRecord("deleting", bucketname,
                                 backup.pathname, <<>>))
           /\ deleted_files' = IF ~dry_run
                               THEN Append(deleted_files, backup.pathname)
                               ELSE deleted_files
    /\ i' = i + 1
    /\ UNCHANGED <<inputs, backup_datetime, arguments, store, main_pc,
                   exit_code, parsed, idx, run_pc, sorted_backups,
                   backups_to_preserve, calls, runs>>

\* Lines 142-153: one turn of the loop over sorted_backups.
PartitionStep ==
    /\ run_pc = "partition"
    /\ i <= Len(sorted_backups)
    /\ LET backup == sorted_backups[i]
       IN  IF backup \in DOMAIN backups_to_preserve
           THEN /\ log' = Append(log, LogRecord("preserving", bucketname,
                                 backup.pathname, backups_to_preserve[backup]))
                /\ deleted_files' = deleted_files
           ELSE /\ log' = Append(log, LogRecord("deleting", bucketname,
                                 backup.pathname, <<>>))
                /\ deleted_files' = IF ~dry_run
                                    THEN Append(deleted_files, backup.pathname)
                                    ELSE deleted_files
    /\ i' = i + 1
    /\ UNCHANGED <<inputs, backup_datetime, arguments, store, main_pc,
                   exit_code, parsed, idx, run_pc, sorted_backups,
                   backups_to_preserve, calls, runs>>

\* The outcomes of one multi-object delete: S3 removes the keys it is asked
\* to, except those it reports an error for.
DeleteOutcomes(keys) ==
    {failed \in SUBSET Range(keys) : Cardinality(failed) <= MaxFailed}

\* A variant of DeleteKeys that asks S3 to delete the names one by one: a
\* request per name.
DeleteKeysOneByOne ==
    /\ run_pc = "partition"
    /\ i > Len(sorted_backups)
    /\ IF deleted_files # <<>>
       THEN /\ store' = [store EXCEPT ![bucketname] = @ \ Range(deleted_files)]
            /\ calls' = calls \o [j \in 1..Len(deleted_files) |->
                            Call("delete_keys", bucketname,
                                 <<deleted_files[j]>>, {})]
       ELSE UNCHANGED <<store, calls>>
    /\ run_pc' = "finish"
    /\ UNCHANGED <<inputs, backup_datetime, arguments, main_pc, exit_code, parsed, idx, locals,
                   log, runs>>

\* Lines 154-155: the batch goes to bucket.delete_keys in one call, whose
\* result is dropped.
DeleteKeys ==
    /\ run_pc = "partition"
    /\ i > Len(sorted_backups)
    /\ IF deleted_files # <<>>
       THEN \E failed \in DeleteOutcomes(deleted_files) :
              /\ store' = [store EXCEPT ![bucketname] =
                              @ \ (Range(deleted_files) \ failed)]
              /\ calls' = Append(calls, Call("delete_keys", bucketname,
                                             deleted_files, failed))
       ELSE UNCHANGED <<store, calls>>
    /\ run_pc' = "finish"
    /\ UNCHANGED <<inputs, backup_datetime, arguments, main_pc, exit_code, parsed, idx, locals,
                   log, runs>>

LastCall == calls[Len(calls)]

\* Lines 157-158, and the return to main's loop.
Finish ==
    /\ run_pc = "finish"
    /\ log' = IF Cardinality(DOMAIN backups_to_preserve) = Len(sorted_backups)
              THEN Append(log, LogRecord("nothing_to_do", bucketname, <<>>, <<>>))
              ELSE log
    /\ runs' = Append(runs,
                  RunRecord(bucketname, dry_run, deleted_files,
                            deleted_files # <<>>,
                            IF deleted_files # <<>> THEN LastCall.failed ELSE {}))
    /\ run_pc' = "idle"
    /\ idx' = idx + 1
    /\ UNCHANGED <<inputs, backup_datetime, arguments, store, main_pc, exit_code, parsed,
                   locals, calls>>

\* ------------------------------------------------------------ initial states
FilterChoices ==
    { <<inc, exc>> : inc \in {<<>>, <<PatB>>, <<PatQ, PatB>>},
                     exc \in {<<>>, <<PatS>>, <<PatSet>>} }

\* Command lines that end in the parser, and two that do not.
OddCommandLines ==
    { <<>>,
      <<Opt("-v", <<>>)>>,
      <<Opt("-h", <<>>)>>,
      <<Opt("-h", <<>>), Opt("-d", TextJunk)>>,
      <<Opt("-z", <<>>)>>,
      <<Opt("--aws_access_key_id", <<"a">>)>>,
      <<Opt("-d", TextJunk)>>,
      <<Opt("-d", TextCount(1)), Opt("-w", TextJunk)>>,
      <<Opt("-d", TextCount(1)), Opt("-n", <<>>)>>,
      <<Opt("-n", <<>>), Opt("-d", TextJunk)>>,
      <<Opt("-d", TextCount(1))>> }

ArgumentLists ==
    { <<>>, <<"b1">>, <<"nx">>, <<"nx", "b1">>, <<"b1", "nx">>,
      <<"b1", "b2">>, <<"b1", "nx", "b2">> }

TypicalContents ==
    { {}, {NoStamp}, {Dec27, Jan01, Jan04s}, {Dec31, BadMonth} }

InitState ==
    /\ main_pc = "parse"
    /\ exit_code = -1
    /\ rotation_scheme = EmptyScheme
    /\ include_list = <<>>
    /\ exclude_list = <<>>
    /\ dry_run = FALSE
    /\ idx = 1
    /\ run_pc = "idle"
    /\ sorted_backups = <<>>
    /\ backups_to_preserve = NoPreservation
    /\ deleted_files = <<>>
    /\ i = 1
    /\ calls = <<>>
    /\ log = <<>>
    /\ runs = <<>>
    /\ backup_datetime = "unread"

\* Every rotation scheme on every bucket content, rotated twice.
EngineCases ==
    /\ \E scheme \in SchemeCommandLines, dry \in BOOLEAN :
           options = scheme \o DryRunOptions(dry)
    /\ arguments = <<"b1", "b1">>
    /\ config = "absent"
    /\ \E c \in Contents(Timestamped \cup {NoStamp}) :
           store = [b \in Buckets |-> IF b = "b1" THEN c ELSE {}]

\* Every include and exclude list on every bucket content.
FilterCases ==
    /\ \E f \in FilterChoices, dry \in BOOLEAN :
           options = <<Opt("-d", TextCount(1))>>
                        \o PatternOptions("-I", f[1])
                        \o PatternOptions("-x", f[2])
                        \o DryRunOptions(dry)
    /\ arguments = <<"b1">>
    /\ config = "absent"
    /\ \E c \in Contents(Timestamped \cup {NoStamp}) :
           store = [b \in Buckets |-> IF b = "b1" THEN c ELSE {}]

\* Every command line shape on missing and existing buckets.
DriverCases ==
    /\ options \in OddCommandLines
    /\ arguments \in ArgumentLists
    /\ config \in {"absent", "invalid", "lists_b1"}
    /\ \E c1 \in TypicalContents, c2 \in {{}, {Dec27, Dec31}} :
           store = [b \in Buckets |-> IF b = "b1" THEN c1 ELSE c2]

Init ==
    /\ InitState
    /\ \/ EngineCases
       \/ FilterCases
       \/ DriverCases

Next ==
    \/ ParseArguments
    \/ MainReturns
    \/ GetBucket
    \/ CollectBackups
    \/ Decide
    \/ PartitionStep
    \/ DeleteKeys
    \/ Finish

Spec == Init /\ [][Next]_vars

\* ------------------------------------------------------- shared vocabulary
\* rotate_backups has computed the preservation decision of the current run.
Decided == run_pc \in {"partition", "finish"}

MostRecentBackup == sorted_backups[Len(sorted_backups)]

\* b is the latest of the collected backups in its period at frequency f.
LatestInPeriod(f, b) ==
    \A c \in Range(sorted_backups) :
        PeriodKey(f, c.timestamp) = PeriodKey(f, b.timestamp)
            => (c = b \/ BackupLess(c, b))

\* The periods at frequency f, later than b's, that hold a collected backup.
LaterPeriods(f, b) ==
    {PeriodKey(f, c.timestamp) : c \in
        {x \in Range(sorted_backups) :
            CmpInts(PeriodKey(f, x.timestamp), PeriodKey(f, b.timestamp)) = 1}}

PreservedUnder(f) ==
    {b \in DOMAIN backups_to_preserve :
        \E r \in 1..Len(backups_to_preserve[b]) : backups_to_preserve[b][r] = f}

NotPreserved == Range(sorted_backups) \ DOMAIN backups_to_preserve

IsDelete(c) == c.op = "delete_keys"

\* The delete calls made since the current rotation listed its bucket.
DeletesInRun ==
    {k \in 1..Len(calls) :
        /\ IsDelete(calls[k])
        /\ \A m \in k..Len(calls) : calls[m].op # "list"}

\* The patterns the command line gives with an option.
RECURSIVE ValuesOf(_, _)
ValuesOf(opts, names) ==
    IF opts = <<>> THEN <<>>
    ELSE (IF Head(opts).opt \in names THEN <<Head(opts).val>> ELSE <<>>)
            \o ValuesOf(Tail(opts), names)

DryRunRequested ==
    \E j \in 1..Len(options) : options[j].opt \in {"-n", "--dry-run"}

\* ------------------------------------------------------------------ claims
\* C1: in every run over a non-empty collection, whatever the scheme (the
\* empty scheme included), the backup with the maximum timestamp is in the
\* preservation set and is not in the batch for the delete call.
C1_MostRecentPreserved ==
    (Decided /\ sorted_backups # <<>>)
        => /\ \A b \in Range(sorted_backups) :
                 CmpInts(b.timestamp, MostRecentBackup.timestamp) <= 0
           /\ MostRecentBackup \in DOMAIN backups_to_preserve
           /\ MostRecentBackup.pathname \notin Range(deleted_files)
           /\ \A k \in DeletesInRun :
                 MostRecentBackup.pathname \notin Range(calls[k].keys)

\* C1 witness: under the empty scheme a rotation that is not a dry run has
\* made its delete call for a collection of two backups or more, and the
\* most recent backup is preserved.
C1_Witness ==
    /\ run_pc = "finish"
    /\ ~dry_run
    /\ DOMAIN rotation_scheme = {}
    /\ Len(sorted_backups) >= 2
    /\ Cardinality(DeletesInRun) = 1
    /\ MostRecentBackup \in DOMAIN backups_to_preserve

\* C2: with --dry-run no step changes the names of a bucket and no request
\* to S3 is a delete_keys.
C2_DryRunDeletesNothing ==
    [][DryRunRequested =>
          /\ store' = store
          /\ \A j \in 1..Len(calls') : ~IsDelete(calls'[j])]_vars

\* C2 witness: a dry run reaches the end of a rotation that has deletion
\* candidates.
C2_Witness ==
    /\ DryRunRequested
    /\ run_pc = "finish"
    /\ NotPreserved # {}

\* C3: when a rotation that was not a dry run had every deletion succeed,
\* the next rotation of the same bucket requests no deletion and makes no
\* delete call.
C3_SecondRunDeletesNothing ==
    \A j \in 2..Len(runs) :
        ( /\ runs[j - 1].bucket = runs[j].bucket
          /\ ~runs[j - 1].dry_run
          /\ runs[j - 1].failed = {} )
        => /\ runs[j].requested = <<>>
           /\ ~runs[j].called
           /\ Cardinality({k \in 1..Len(calls) :
                  IsDelete(calls[k]) /\ calls[k].bucket = runs[j].bucket}) <= 1

\* C3 witness: a first rotation deleted names, all of them, and a second
\* rotation of the same bucket found backups to decide about.
C3_Witness ==
    /\ Len(runs) = 2
    /\ runs[1].bucket = runs[2].bucket
    /\ runs[1].called
    /\ runs[1].failed = {}
    /\ sorted_backups # <<>>
    /\ DOMAIN rotation_scheme # {}

\* C4: under a frequency with an integer count N the preserved backups are
\* the latest backup of each of the N most recent periods that hold a
\* backup; with no other frequency in the scheme every other collected
\* backup is in the delete batch.
C4_CountsPeriods ==
    Decided =>
        \A f \in DOMAIN rotation_scheme :
            rotation_scheme[f].kind = "count" =>
                /\ PreservedUnder(f) =
                      {b \in Range(sorted_backups) :
                          /\ LatestInPeriod(f, b)
                          /\ Cardinality(LaterPeriods(f, b)) < rotation_scheme[f].n}
                /\ (run_pc = "finish" /\ ~dry_run /\ DOMAIN rotation_scheme = {f})
                      => Range(deleted_files) =
                            {b.pathname : b \in
                                {x \in Range(sorted_backups) :
                                    \/ ~LatestInPeriod(f, x)
                                    \/ Cardinality(LaterPeriods(f, x))
                                          >= rotation_scheme[f].n}}

\* C4 witness: a count of 2 on a collection that spans 3 periods of the
\* frequency: 2 backups are preserved and the third is deleted.
C4_Witness ==
    /\ run_pc = "finish"
    /\ ~dry_run
    /\ \E f \in DOMAIN rotation_scheme :
          /\ DOMAIN rotation_scheme = {f}
          /\ rotation_scheme[f] = Count(2)
          /\ Cardinality({PeriodKey(f, b.timestamp) : b \in Range(sorted_backups)}) = 3
          /\ Cardinality(PreservedUnder(f)) = 2
          /\ Len(deleted_files) = 1

\* C5: the collected names are the timestamped names of the bucket that
\* match no exclude pattern and, when there are include patterns, match one.
C5_IncludeExclude ==
    run_pc \in {"decide", "partition"} =>
        {b.pathname : b \in Range(sorted_backups)} =
            {n \in store[bucketname] :
                /\ TimestampSearch(n) # NoMatch
                /\ ~MatchesAny(n, ValuesOf(options, {"-x", "--exclude"}))
                /\ \/ ValuesOf(options, {"-I", "--include"}) = <<>>
                   \/ MatchesAny(n, ValuesOf(options, {"-I", "--include"}))}

\* C5 witness: a timestamped name that matches an include and an exclude
\* pattern is left out while another name is collected.
C5_Witness ==
    /\ run_pc = "decide"
    /\ \E n \in store[bucketname] :
          /\ TimestampSearch(n) # NoMatch
          /\ include_list # <<>>
          /\ MatchesAny(n, include_list)
          /\ MatchesAny(n, exclude_list)
          /\ n \notin {b.pathname : b \in Range(sorted_backups)}

\* C6: when rotate_backups raises for one bucket of the command line, every
\* other existing bucket of the command line is still rotated.
C6_OtherBucketsRotated ==
    main_pc = "crashed" =>
        \A j \in 1..Len(arguments) :
            (j # idx /\ arguments[j] \in DOMAIN store)
                => \E k \in 1..Len(calls) :
                       calls[k].op = "list" /\ calls[k].bucket = arguments[j]

\* C7: the names a delete call failed to remove are reported: each is named
\* by a warning or an error of the log.
C7_FailedNamesReported ==
    \A j \in 1..Len(runs) :
        \A n \in runs[j].failed :
            \E k \in 1..Len(log) :
                log[k].event \in {"warning", "error"} /\ log[k].pathname = n

\* C8: a rotation makes at most one delete call; the call is made when the
\* loop over the collected backups has ended, so after every backup has its
\* decision, and its keys are all the deletion candidates.
C8_OneBatchAfterDecision ==
    /\ [](Cardinality(DeletesInRun) <= 1)
    /\ [][(calls' # calls /\ IsDelete(calls'[Len(calls')])) =>
             /\ run_pc = "partition"
             /\ i > Len(sorted_backups)
             /\ Len(calls') = Len(calls) + 1
             /\ calls'[Len(calls')].bucket = bucketname
             /\ calls'[Len(calls')].keys =
                   SelectSeq([j \in 1..Len(sorted_backups) |->
                                 sorted_backups[j].pathname],
                             LAMBDA n : n \in {b.pathname : b \in NotPreserved})
          ]_vars

\* C8 witness: a rotation has made its delete call, with two names or more.
C8_Witness ==
    /\ run_pc = "finish"
    /\ Cardinality(DeletesInRun) = 1
    /\ Len(LastCall.keys) >= 2

RetentionOptions ==
    { "-H", "--hourly", "-d", "--daily", "-w", "--weekly", "-m", "--monthly",
      "-y", "--yearly" }

HelpOptions == {"-h", "--help"}

\* The option at position j is one the parser fails on.
FailsAt(j) ==
    \/ /\ options[j].opt \in RetentionOptions
       /\ ~RetentionAccepted(options[j].val)
    \/ options[j].opt \in {"--aws_access_key_id", "--aws_secret_access_key"}

\* The command line or the configuration file is in error: an option getopt
\* rejects, an option the parser fails on before any request for help, or
\* no bucket on the command line and a configuration file that does not
\* load.
ConfigurationError ==
    \/ \E j \in 1..Len(options) : options[j].opt \notin GetoptKnown
    \/ \E j \in 1..Len(options) :
          /\ FailsAt(j)
          /\ \A k \in 1..(j - 1) : options[k].opt \notin HelpOptions
    \/ /\ \A j \in 1..Len(options) : options[j].opt \notin HelpOptions
       /\ arguments = <<>>
       /\ config = "invalid"

\* C9: a configuration error ends the invocation with exit status 1 before
\* any request to S3: no bucket is listed and no name deleted.
C9_ConfigurationErrorExits ==
    (ConfigurationError /\ main_pc # "parse")
        => /\ main_pc = "exited"
           /\ exit_code = 1
           /\ calls = <<>>
           /\ runs = <<>>

\* C9 witness: the invocation has exited on a retention value that is not
\* accepted, with an existing, non-empty bucket on the command line.
C9_Witness ==
    /\ main_pc = "exited"
    /\ \E j \in 1..Len(options) :
          options[j].opt \in RetentionOptions /\ ~RetentionAccepted(options[j].val)
    /\ \E j \in 1..Len(arguments) :
          arguments[j] \in DOMAIN store /\ store[arguments[j]] # {}

\* The current rotation has logged the event for the name.
LoggedInRun(event, pathname) ==
    \E j \in 1..Len(log) :
        /\ log[j].event = event
        /\ log[j].pathname = pathname
        /\ \A k \in j..Len(log) : log[k].event # "scanning"

\* C10: at the end of a rotation every collected backup is logged as
\* preserved when it is in the preservation set and as deleted when it is
\* not, never as both; unless the run is a dry run the names of the delete
\* call are the names of the collected backups outside the preservation set.
C10_Partition ==
    run_pc = "finish" =>
        /\ \A b \in Range(sorted_backups) :
              /\ LoggedInRun("preserving", b.pathname)
                    <=> b \in DOMAIN backups_to_preserve
              /\ LoggedInRun("deleting", b.pathname)
                    <=> b \notin DOMAIN backups_to_preserve
        /\ ~dry_run =>
              IF NotPreserved = {}
              THEN DeletesInRun = {}
              ELSE /\ Cardinality(DeletesInRun) = 1
                   /\ LastCall.bucket = bucketname
                   /\ Len(LastCall.keys) = Cardinality(NotPreserved)
                   /\ Range(LastCall.keys) = {b.pathname : b \in NotPreserved}

\* C10 witness: a rotation that is not a dry run ends with a backup
\* preserved and a backup deleted.
C10_Witness ==
    /\ run_pc = "finish"
    /\ ~dry_run
    /\ NotPreserved # {}
    /\ DOMAIN backups_to_preserve # {}

\* A name the command line keeps out of the collection: it holds no
\* timestamp, it matches an exclude pattern, or there are include patterns
\* and it matches none.
Uncollected(n) ==
    \/ TimestampSearch(n) = NoMatch
    \/ MatchesAny(n, ValuesOf(options, {"-x", "--exclude"}))
    \/ /\ ValuesOf(options, {"-I", "--include"}) # <<>>
       /\ ~MatchesAny(n, ValuesOf(options, {"-I", "--include"}))

\* The decision rotate_backups takes on a set of names, all of them
\* collected, under the parsed scheme.
DecisionOn(names) ==
    LET backups == collect_backups(names, <<>>, <<>>)
    IN  IF backups = <<>> THEN NoPreservation
        ELSE find_preservation_criteria(
                 apply_rotation_scheme(rotation_scheme, group_backups(backups),
                                       backups[Len(backups)].timestamp))

\* C11: a name that is not collected is in no delete call and no step
\* removes it from its bucket; it is not among the backups of a rotation,
\* and the preservation decision is the one the rotation takes on the
\* bucket without the uncollected names.
C11_UncollectedUntouched ==
    /\ [](/\ \A k \in 1..Len(calls) :
                IsDelete(calls[k])
                    => \A n \in Range(calls[k].keys) : ~Uncollected(n)
          /\ run_pc \in {"decide", "partition", "finish"}
                => \A b \in Range(sorted_backups) : ~Uncollected(b.pathname)
          /\ run_pc = "partition"
                => /\ sorted_backups =
                         collect_backups(
                             {n \in store[bucketname] : ~Uncollected(n)},
                             <<>>, <<>>)
                   /\ backups_to_preserve =
                         DecisionOn({n \in store[bucketname] : ~Uncollected(n)}))
    /\ [][\A b \in DOMAIN store : \A n \in store[b] :
              Uncollected(n) => n \in store'[b]]_vars

\* C11 witness: a rotation has made its delete call while the bucket holds
\* an excluded name whose timestamp is later than that of every collected
\* backup.
C11_Witness ==
    /\ run_pc = "finish"
    /\ Cardinality(DeletesInRun) = 1
    /\ \E n \in store[bucketname] :
          /\ TimestampSearch(n) # NoMatch
          /\ MatchesAny(n, exclude_list)
          /\ CmpInts(TimestampFields(TimestampSearch(n)),
                     MostRecentBackup.timestamp) = 1
====
